---------------------------- MODULE Spec2Model ----------------------------
(***************************************************************************)
(* RockTimer central server (src/server/main.py): the measurement          *)
(* coordinator of class RockTimerServer, its TimingSession and its         *)
(* in-memory history.                                                      *)
(*                                                                         *)
(* Specification Spec takes one call of a RockTimerServer method           *)
(* (_handle_trigger, arm, disarm, delete_record, clear_history) as one     *)
(* step.  Optional values (None or a value) are sequences of length 0      *)
(* or 1, so that Python's truth test, which does not tell None from 0,     *)
(* is modelled by Truthy.                                                  *)
(***************************************************************************)
EXTENDS Integers, Sequences, FiniteSets, TLC

VARIABLES state, session, history, next_id, lastOp

\* the ids given to records since the start or the last clear_history
\* (a record of the past, read by no operation)
VARIABLE assigned

\* the liveness table, the wall clock time.time() in seconds, and whether
\* the UDP listener thread is still in its loop
VARIABLES sensor_last_seen, clock, running

netVars == <<sensor_last_seen, clock, running>>

\* the list of connected websockets, the websockets whose peer is gone (a
\* send to them raises), the _broadcast_state coroutines scheduled so far,
\* the websockets a send has failed for, and the number of websockets
\* accepted so far
VARIABLES websocket_clients, broken, tasks, failed, accepted

pubVars == <<websocket_clients, broken, tasks, failed, accepted>>

\* where each thread stands in _handle_trigger
VARIABLE thread

thrVars == <<thread>>

\* speech_settings, and what the speech hook (_speak_phrase, _speak_time) did
\* during the last call of arm or _handle_trigger
VARIABLES speech_settings, hook

speechVars == <<speech_settings, hook>>

vars == <<state, session, history, next_id, lastOp, assigned,
          sensor_last_seen, clock, running,
          websocket_clients, broken, tasks, failed, accepted,
          thread, speech_settings, hook>>

-----------------------------------------------------------------------------
(* Bounds of the model *)

\* completions are explored while _next_id <= MaxId
MaxId == 2

\* the timestamp_ns values a trigger message may carry; 0 is a value the
\* UDP listener receives and does not forward
TimestampValues == {-1000000, 0, 2000000, 2000001}

\* time.time_ns() of the local sensor callback: a positive clock reading
LocalClockValues == {t \in TimestampValues : t > 0}

\* specification SpecFull explores MaxOver completions on top of a history
\* that is one record short of the limit
MaxOver == 3

\* the timestamp_ns values of trigger messages under SpecFull
FullTimestamps == {-1000000, 2000000}

\* specification SpecIngress lets the wall clock run from 0 to MaxClock
MaxClock == 3

\* the timestamp_ns values of trigger messages under SpecIngress; 0 also
\* stands for a message without timestamp_ns
IngressTimestamps == {-1000000, 0, 2000000}

\* the senders under SpecIngress; "" stands for a message without device_id
IngressDevices == {"tee", "hog_close", ""}

\* specification SpecBroadcast accepts MaxClients websockets and schedules
\* MaxPublish broadcasts
MaxClients == 2
MaxPublish == 2

\* the threads that call _handle_trigger: the UDP listener thread and the
\* thread gpiozero runs the local sensor callback on
Threads == {"udp", "gpio"}

\* the triggers of specification SpecThreads, and the number of records it
\* lets the threads create
ThreadTriggers ==
    {<<"tee", -1000000>>, <<"hog_close", 2000000>>, <<"hog_far", 2000001>>}
ThreadRuns == 1

\* a thread that is not inside _handle_trigger
ThreadIdle == [pc |-> "idle", device_id |-> "", timestamp_ns |-> 0]

\* device_id values of trigger messages; "other" stands for any identity
\* that is not one of the three checkpoints
DeviceIds == {"tee", "hog_close", "hog_far", "other"}

-----------------------------------------------------------------------------
(* Values *)

\* class SystemState
IDLE == "idle"
ARMED == "armed"
MEASURING == "measuring"
COMPLETED == "completed"
SystemState == {IDLE, ARMED, MEASURING, COMPLETED}

\* Optional[...]: None is <<>>, a value v is <<v>>
None == <<>>
Some(v) == <<v>>

\* Python truth value of an Optional[int]: None and 0 are both false
Truthy(x) == x # None /\ x[1] # 0

\* datetime.now(): the wall clock reading, one abstract value
Now == "now"

Abs(n) == IF n < 0 THEN -n ELSE n

RECURSIVE GCD(_, _)
GCD(a, b) == IF b = 0 THEN a ELSE GCD(b, a % b)

\* the number n / d with d > 0, as a fraction in lowest terms
Ratio(n, d) ==
    LET g == GCD(Abs(n), d)
    IN  [num |-> n \div g, den |-> d \div g]

\* nanoseconds in a millisecond: the divisor 1_000_000 of the split properties
NsPerMs == 1000000

\* history is cut to this many records
HistoryLimit == 100

-----------------------------------------------------------------------------
(* class TimingSession *)

\* TimingSession.reset: also the session after __init__
reset ==
    [tee_time_ns |-> None, hog_close_time_ns |-> None,
     hog_far_time_ns |-> None, started_at |-> None]

\* variant: the difference is divided by 1_000 (microseconds, not milliseconds)
tee_to_hog_close_ms_micro(s) ==
    IF Truthy(s.tee_time_ns) /\ Truthy(s.hog_close_time_ns)
    THEN Some(Ratio(s.hog_close_time_ns[1] - s.tee_time_ns[1], 1000))
    ELSE None

tee_to_hog_close_ms(s) ==
    IF Truthy(s.tee_time_ns) /\ Truthy(s.hog_close_time_ns)
    THEN Some(Ratio(s.hog_close_time_ns[1] - s.tee_time_ns[1], NsPerMs))
    ELSE None

hog_to_hog_ms(s) ==
    IF Truthy(s.hog_close_time_ns) /\ Truthy(s.hog_far_time_ns)
    THEN Some(Ratio(s.hog_far_time_ns[1] - s.hog_close_time_ns[1], NsPerMs))
    ELSE None

\* variant: the total is measured from hog_close instead of tee
total_ms_from_hog_close(s) ==
    IF Truthy(s.tee_time_ns) /\ Truthy(s.hog_far_time_ns)
    THEN Some(Ratio(s.hog_far_time_ns[1] - s.hog_close_time_ns[1], NsPerMs))
    ELSE None

total_ms(s) ==
    IF Truthy(s.tee_time_ns) /\ Truthy(s.hog_far_time_ns)
    THEN Some(Ratio(s.hog_far_time_ns[1] - s.tee_time_ns[1], NsPerMs))
    ELSE None

-----------------------------------------------------------------------------
(* class RockTimerServer.  A coordinator value c is the record of the      *)
(* fields state, session, history, next_id; the methods are operators      *)
(* from the coordinator before the call to the coordinator after it.       *)

\* TimingRecord(...) as built by _complete_measurement
TimingRecord(id, timestamp, first, second, total) ==
    [id |-> id, timestamp |-> timestamp, tee_to_hog_close_ms |-> first,
     hog_to_hog_ms |-> second, total_ms |-> total]

\* variant: the last 100 records are kept (history[-100:])
Trim_keep_oldest(h) ==
    IF Len(h) > HistoryLimit
    THEN SubSeq(h, Len(h) - HistoryLimit + 1, Len(h))
    ELSE h

\* history[:100]
Trim(h) == IF Len(h) > HistoryLimit THEN SubSeq(h, 1, HistoryLimit) ELSE h

\* variant: the id is one more than the largest id in the history, the
\* counter is not consulted
complete_measurement_max_id(c) ==
    LET ids == {c.history[i].id : i \in 1..Len(c.history)}
        top == IF ids = {} THEN 0 ELSE CHOOSE m \in ids : \A k \in ids : k <= m
        record == TimingRecord(top + 1, c.session.started_at,
                               tee_to_hog_close_ms(c.session), None, None)
    IN  [c EXCEPT !.state = COMPLETED,
                  !.next_id = c.next_id + 1,
                  !.history = Trim(<<record>> \o c.history)]

complete_measurement(c) ==
    LET record == TimingRecord(c.next_id, c.session.started_at,
                               tee_to_hog_close_ms(c.session), None, None)
    IN  [c EXCEPT !.state = COMPLETED,
                  !.next_id = c.next_id + 1,
                  !.history = Trim(<<record>> \o c.history)]

update_last_record(c) ==
    IF c.history # <<>>
    THEN [c EXCEPT !.history[1].hog_to_hog_ms = hog_to_hog_ms(c.session),
                   !.history[1].total_ms = total_ms(c.session)]
    ELSE c

\* variant: the Completed-state branch for hog_far does not broadcast
backfill_silent(c, timestamp_ns) ==
    IF ~Truthy(c.session.hog_far_time_ns)
    THEN [c |-> update_last_record(
                   [c EXCEPT !.session.hog_far_time_ns = Some(timestamp_ns)]),
          bcast |-> FALSE]
    ELSE [c |-> c, bcast |-> FALSE]

\* the Completed-state branch for hog_far (lines 379-385)
backfill(c, timestamp_ns) ==
    IF ~Truthy(c.session.hog_far_time_ns)
    THEN [c |-> update_last_record(
                   [c EXCEPT !.session.hog_far_time_ns = Some(timestamp_ns)]),
          bcast |-> TRUE]
    ELSE [c |-> c, bcast |-> FALSE]

\* "First trigger starts the measurement" (lines 392-395)
start_measuring(c) ==
    IF c.state = ARMED
    THEN [c EXCEPT !.state = MEASURING, !.session.started_at = Some(Now)]
    ELSE c

\* variant: a tee timestamp overwrites the one already recorded
record_timestamp_overwrite(c, device_id, timestamp_ns) ==
    IF device_id = "tee"
    THEN [c EXCEPT !.session.tee_time_ns = Some(timestamp_ns)]
    ELSE IF device_id = "hog_close" /\ ~Truthy(c.session.hog_close_time_ns)
    THEN IF Truthy(c.session.tee_time_ns)
            /\ timestamp_ns > c.session.tee_time_ns[1]
         THEN complete_measurement(
                  [c EXCEPT !.session.hog_close_time_ns = Some(timestamp_ns)])
         ELSE c
    ELSE c

\* variant: hog_close is admitted with a timestamp equal to the tee timestamp
record_timestamp_equal(c, device_id, timestamp_ns) ==
    IF device_id = "tee" /\ ~Truthy(c.session.tee_time_ns)
    THEN [c EXCEPT !.session.tee_time_ns = Some(timestamp_ns)]
    ELSE IF device_id = "hog_close" /\ ~Truthy(c.session.hog_close_time_ns)
    THEN IF Truthy(c.session.tee_time_ns)
            /\ timestamp_ns >= c.session.tee_time_ns[1]
         THEN complete_measurement(
                  [c EXCEPT !.session.hog_close_time_ns = Some(timestamp_ns)])
         ELSE c
    ELSE c

\* variant: a hog_far trigger is recorded while measuring without the check
\* that hog_close is recorded
record_timestamp_hog_far_early(c, device_id, timestamp_ns) ==
    IF device_id = "tee" /\ ~Truthy(c.session.tee_time_ns)
    THEN [c EXCEPT !.session.tee_time_ns = Some(timestamp_ns)]
    ELSE IF device_id = "hog_close" /\ ~Truthy(c.session.hog_close_time_ns)
    THEN IF Truthy(c.session.tee_time_ns)
            /\ timestamp_ns > c.session.tee_time_ns[1]
         THEN complete_measurement(
                  [c EXCEPT !.session.hog_close_time_ns = Some(timestamp_ns)])
         ELSE c
    ELSE IF device_id = "hog_far" /\ ~Truthy(c.session.hog_far_time_ns)
    THEN update_last_record(
             [c EXCEPT !.session.hog_far_time_ns = Some(timestamp_ns)])
    ELSE c

\* "Record timestamp" (lines 397-416)
record_timestamp(c, device_id, timestamp_ns) ==
    IF device_id = "tee" /\ ~Truthy(c.session.tee_time_ns)
    THEN [c EXCEPT !.session.tee_time_ns = Some(timestamp_ns)]
    ELSE IF device_id = "hog_close" /\ ~Truthy(c.session.hog_close_time_ns)
    THEN IF Truthy(c.session.tee_time_ns)
            /\ timestamp_ns > c.session.tee_time_ns[1]
         THEN complete_measurement(
                  [c EXCEPT !.session.hog_close_time_ns = Some(timestamp_ns)])
         ELSE c
    ELSE IF device_id = "hog_far" /\ ~Truthy(c.session.hog_far_time_ns)
    THEN IF Truthy(c.session.hog_close_time_ns)
            /\ timestamp_ns > c.session.hog_close_time_ns[1]
         THEN update_last_record(
                  [c EXCEPT !.session.hog_far_time_ns = Some(timestamp_ns)])
         ELSE c
    ELSE c

\* variant: the check that the state is Armed or Measuring is missing
handle_trigger_any_state(c, device_id, timestamp_ns) ==
    IF device_id = "hog_far" /\ c.state = COMPLETED
    THEN backfill(c, timestamp_ns)
    ELSE [c |-> record_timestamp(start_measuring(c), device_id, timestamp_ns),
          bcast |-> TRUE]

\* variant: the state leaves Armed only when the trigger's timestamp is
\* recorded
handle_trigger_start_on_admission(c, device_id, timestamp_ns) ==
    IF device_id = "hog_far" /\ c.state = COMPLETED
    THEN backfill(c, timestamp_ns)
    ELSE IF c.state \notin {ARMED, MEASURING}
    THEN [c |-> c, bcast |-> FALSE]
    ELSE IF record_timestamp(c, device_id, timestamp_ns) = c
    THEN [c |-> c, bcast |-> TRUE]
    ELSE [c |-> record_timestamp(start_measuring(c), device_id, timestamp_ns),
          bcast |-> TRUE]

\* _handle_trigger: the coordinator after the call, and whether
\* broadcast_state was called
handle_trigger(c, device_id, timestamp_ns) ==
    IF device_id = "hog_far" /\ c.state = COMPLETED
    THEN backfill(c, timestamp_ns)
    ELSE IF c.state \notin {ARMED, MEASURING}
    THEN [c |-> c, bcast |-> FALSE]
    ELSE [c |-> record_timestamp(start_measuring(c), device_id, timestamp_ns),
          bcast |-> TRUE]

\* variant: arm without the state check
arm_any_state(c) ==
    [c |-> [c EXCEPT !.session = reset, !.state = ARMED],
     ret |-> TRUE, bcast |-> TRUE]

\* arm: the coordinator after the call, the return value, the broadcast
arm(c) ==
    IF c.state \notin {IDLE, COMPLETED}
    THEN [c |-> c, ret |-> FALSE, bcast |-> FALSE]
    ELSE [c |-> [c EXCEPT !.session = reset, !.state = ARMED],
          ret |-> TRUE, bcast |-> TRUE]

\* speech_settings after __init__ (lines 156-161) when the configuration
\* names none of them
SpeechDefaults ==
    [speech_enabled |-> FALSE, speak_tee_hog |-> TRUE,
     speak_hog_hog |-> FALSE, speak_ready |-> TRUE]

\* the values POST /api/settings gives to speech_settings: the defaults,
\* speech on with every announcement, speech on with no announcement
SpeechSettings ==
    {SpeechDefaults,
     [speech_enabled |-> TRUE, speak_tee_hog |-> TRUE,
      speak_hog_hog |-> TRUE, speak_ready |-> TRUE],
     [speech_enabled |-> TRUE, speak_tee_hog |-> FALSE,
      speak_hog_hog |-> FALSE, speak_ready |-> FALSE]}

\* what one call of a speech hook does: it returns before the try block
\* ("skipped"), it spawns the TTS process ("spawned"), it catches and logs
\* the exception of the spawn ("failed"); "raised" is an exception that
\* leaves the hook, and "none" is no call at all
HookOutcomes == {"none", "skipped", "spawned", "failed", "raised"}

\* Python truth value of an Optional[float] held as a fraction
TruthyMs(x) == x # None /\ x[1].num # 0

\* variant: _speak_phrase without the try block
speak_phrase_uncaught(settings, text, spawn_ok) ==
    IF ~settings.speech_enabled
    THEN "skipped"
    ELSE IF text = ""
    THEN "skipped"
    ELSE IF spawn_ok THEN "spawned" ELSE "raised"

\* _speak_phrase; spawn_ok tells whether os.path.exists, _spawn_tts and
\* subprocess.Popen go through without an exception
speak_phrase(settings, text, spawn_ok) ==
    IF ~settings.speech_enabled
    THEN "skipped"
    ELSE IF text = ""
    THEN "skipped"
    ELSE IF spawn_ok THEN "spawned" ELSE "failed"

\* variant: _speak_time without the try block
speak_time_uncaught(settings, time_ms, time_type, spawn_ok) ==
    IF ~settings.speech_enabled
    THEN "skipped"
    ELSE IF time_type = "tee_hog" /\ ~settings.speak_tee_hog
    THEN "skipped"
    ELSE IF time_type = "hog_hog" /\ ~settings.speak_hog_hog
    THEN "skipped"
    ELSE IF time_ms = None \/ time_ms[1].num <= 0
    THEN "skipped"
    ELSE IF spawn_ok THEN "spawned" ELSE "raised"

\* _speak_time
speak_time(settings, time_ms, time_type, spawn_ok) ==
    IF ~settings.speech_enabled
    THEN "skipped"
    ELSE IF time_type = "tee_hog" /\ ~settings.speak_tee_hog
    THEN "skipped"
    ELSE IF time_type = "hog_hog" /\ ~settings.speak_hog_hog
    THEN "skipped"
    ELSE IF time_ms = None \/ time_ms[1].num <= 0
    THEN "skipped"
    ELSE IF spawn_ok THEN "spawned" ELSE "failed"

\* arm with its speech hook (lines 540-543): broadcast_state is called
\* before the hook, and an exception that leaves the hook takes the place
\* of the return value
arm_speak(c, settings, spawn_ok) ==
    LET r == arm(c)
        h == IF r.ret /\ settings.speak_ready
             THEN speak_phrase(settings, "ready to go", spawn_ok)
             ELSE "none"
    IN  [c |-> r.c, bcast |-> r.bcast, hook |-> h,
         ret |-> IF h = "raised" THEN None ELSE Some(r.ret)]

\* _handle_trigger with its speech hooks: _complete_measurement (the call
\* that advances _next_id) speaks the first split at line 440,
\* _update_last_record (called when hog_far is recorded) speaks the second
\* split at line 452 when the history is not empty and both values are
\* true; broadcast_state comes after the hook (lines 383 and 418), so an
\* exception that leaves the hook skips it
handle_trigger_speak(c, device_id, timestamp_ns, settings, spawn_ok) ==
    LET r == handle_trigger(c, device_id, timestamp_ns)
        completed == r.c.next_id # c.next_id
        updated == r.c.session.hog_far_time_ns # c.session.hog_far_time_ns
        hog_hog == hog_to_hog_ms(r.c.session)
        total == total_ms(r.c.session)
        h == IF completed
             THEN speak_time(settings, tee_to_hog_close_ms(r.c.session),
                             "tee_hog", spawn_ok)
             ELSE IF updated /\ r.c.history # <<>>
                     /\ TruthyMs(hog_hog) /\ TruthyMs(total)
             THEN speak_time(settings, hog_hog, "hog_hog", spawn_ok)
             ELSE "none"
    IN  [c |-> r.c, bcast |-> r.bcast /\ h # "raised", hook |-> h]

\* variant: disarm leaves the session as it is
disarm_keep_session(c) ==
    [c |-> [c EXCEPT !.state = IDLE], ret |-> TRUE, bcast |-> TRUE]

\* variant: disarm refuses while a run is being measured
disarm_not_measuring(c) ==
    IF c.state = MEASURING
    THEN [c |-> c, ret |-> FALSE, bcast |-> FALSE]
    ELSE [c |-> [c EXCEPT !.state = IDLE, !.session = reset],
          ret |-> TRUE, bcast |-> TRUE]

\* variant: disarm refuses in Idle and in Measuring
disarm_guarded(c) ==
    IF c.state \notin {ARMED, COMPLETED}
    THEN [c |-> c, ret |-> FALSE, bcast |-> FALSE]
    ELSE [c |-> [c EXCEPT !.state = IDLE, !.session = reset],
          ret |-> TRUE, bcast |-> TRUE]

disarm(c) ==
    [c |-> [c EXCEPT !.state = IDLE, !.session = reset],
     ret |-> TRUE, bcast |-> TRUE]

\* index of the first record with this id, 0 when there is none
IndexOf(h, record_id) ==
    IF \E i \in 1..Len(h) : h[i].id = record_id
    THEN CHOOSE i \in 1..Len(h) :
            /\ h[i].id = record_id
            /\ \A j \in 1..(i - 1) : h[j].id # record_id
    ELSE 0

\* list.pop(i), i counted from 1
Pop(h, i) == SubSeq(h, 1, i - 1) \o SubSeq(h, i + 1, Len(h))

\* variant: the record after the one found is removed
delete_record_next(c, record_id) ==
    LET i == IndexOf(c.history, record_id)
    IN  IF i # 0
        THEN [c |-> [c EXCEPT !.history = Pop(c.history, i + 1)], ret |-> TRUE]
        ELSE [c |-> c, ret |-> FALSE]

\* variant: deleting the newest record gives its id back to the counter
delete_record_rewind(c, record_id) ==
    LET i == IndexOf(c.history, record_id)
    IN  IF i # 0
        THEN [c |-> [c EXCEPT !.history = Pop(c.history, i),
                              !.next_id = IF record_id = c.next_id - 1
                                          THEN record_id ELSE c.next_id],
              ret |-> TRUE]
        ELSE [c |-> c, ret |-> FALSE]

delete_record(c, record_id) ==
    LET i == IndexOf(c.history, record_id)
    IN  IF i # 0
        THEN [c |-> [c EXCEPT !.history = Pop(c.history, i)], ret |-> TRUE]
        ELSE [c |-> c, ret |-> FALSE]

\* variant: the counter is not reset
clear_history_keep_counter(c) ==
    [c EXCEPT !.history = <<>>]

clear_history(c) ==
    [c EXCEPT !.history = <<>>, !.next_id = 1]

-----------------------------------------------------------------------------
(* Liveness tracking and the UDP listener *)

\* self.sensor_timeout_s: server.sensor_timeout_s of the configuration, in
\* seconds (12.0 when the configuration does not set it)
sensor_timeout_s == 2

\* _mark_sensor_seen: the table after the call at wall clock time now
\* variant: only the first message of a sensor is recorded
mark_sensor_seen_first(seen, device_id, source, now) ==
    IF seen[device_id] = None
    THEN [seen EXCEPT ![device_id] =
             Some([last_seen_ts |-> now, source |-> source])]
    ELSE seen

mark_sensor_seen(seen, device_id, source, now) ==
    [seen EXCEPT ![device_id] =
        Some([last_seen_ts |-> now, source |-> source])]

\* variant: a sensor is online only while its age is below the timeout
sensor_status_strict(seen, device_id, now) ==
    LET meta == seen[device_id]
    IN  IF device_id = "hog_close" /\ meta = None THEN "local"
        ELSE IF meta = None THEN "offline"
        ELSE IF now - meta[1].last_seen_ts < sensor_timeout_s
             THEN "online" ELSE "offline"

\* get_sensors_status: the status reported for one of the three sensors
sensor_status(seen, device_id, now) ==
    LET meta == seen[device_id]
    IN  IF device_id = "hog_close" /\ meta = None THEN "local"
        ELSE IF meta = None THEN "offline"
        ELSE IF now - meta[1].last_seen_ts <= sensor_timeout_s
             THEN "online" ELSE "offline"

\* _handle_trigger called with a timestamp_ns that is a string, for
\* device_id hog_close or an unknown identity: comparing the string with the
\* recorded tee timestamp (line 403) raises TypeError
handle_trigger_str(c, device_id) ==
    IF c.state \notin {ARMED, MEASURING}
    THEN [c |-> c, bcast |-> FALSE, raised |-> FALSE]
    ELSE IF device_id = "hog_close"
            /\ ~Truthy(c.session.hog_close_time_ns)
            /\ Truthy(c.session.tee_time_ns)
    THEN [c |-> start_measuring(c), bcast |-> FALSE, raised |-> TRUE]
    ELSE [c |-> start_measuring(c), bcast |-> TRUE, raised |-> FALSE]

\* A datagram msg: form is "ok" for a JSON object, whose fields follow;
\* device_id "" and timestamp_ns 0 also stand for an absent field.
\* "str_timestamp" is a JSON object whose timestamp_ns is a string.
\* The other forms are "undecodable" (bytes that are not UTF-8),
\* "invalid_json" and "not_object" (a JSON array).
Msg(form, type, device_id, timestamp_ns) ==
    [form |-> form, type |-> type, device_id |-> device_id,
     timestamp_ns |-> timestamp_ns]

\* one turn of the loop of _udp_listener_loop on the datagram msg: the
\* coordinator and the liveness table after it, whether broadcast_state
\* was called and whether the loop goes on
udp_receive(c, seen, msg, now) ==
    LET same == [c |-> c, seen |-> seen, bcast |-> FALSE, running |-> TRUE]
        marked == IF msg.device_id # ""
                  THEN mark_sensor_seen(seen, msg.device_id, msg.type, now)
                  ELSE seen
    IN  CASE msg.form = "undecodable" ->
               \* UnicodeDecodeError is caught by neither except clause
               [same EXCEPT !.running = FALSE]
          [] msg.form = "invalid_json" -> same
          [] msg.form = "not_object" ->
               \* payload.get raises AttributeError
               [same EXCEPT !.running = FALSE]
          [] msg.form \in {"ok", "str_timestamp"} /\ msg.type = "trigger" ->
               IF msg.device_id # "" /\ msg.form = "str_timestamp"
               THEN LET r == handle_trigger_str(c, msg.device_id)
                    IN  [c |-> r.c, seen |-> marked, bcast |-> r.bcast,
                         running |-> ~r.raised]
               ELSE IF msg.device_id # "" /\ msg.timestamp_ns # 0
               THEN LET r == handle_trigger(c, msg.device_id, msg.timestamp_ns)
                    IN  [c |-> r.c, seen |-> marked, bcast |-> r.bcast,
                         running |-> TRUE]
               ELSE [same EXCEPT !.seen = marked]
          [] msg.form = "ok" /\ msg.type = "heartbeat" ->
               [same EXCEPT !.seen = marked]
          [] OTHER -> same

-----------------------------------------------------------------------------
(* The state machine *)

\* the coordinator in the current state
Coord ==
    [state |-> state, session |-> session, history |-> history,
     next_id |-> next_id]

\* the ids of the records of a history
Ids(h) == {h[i].id : i \in 1..Len(h)}

\* the fields of the server become those of the coordinator c
SetCoord(c) ==
    /\ state' = c.state
    /\ session' = c.session
    /\ history' = c.history
    /\ next_id' = c.next_id

\* the next state is the coordinator c; the ids of its records are
\* remembered
Becomes(c) ==
    /\ SetCoord(c)
    /\ assigned' = assigned \cup Ids(c.history)
    /\ UNCHANGED <<speechVars, netVars, pubVars, thrVars>>

\* the operation of the last step: its name, the system state it was called
\* in, its arguments (0 or "" when it has none), its return value and
\* whether it called broadcast_state
Op(name, device_id, timestamp_ns, record_id, ret, bcast) ==
    [op |-> name, from |-> state, device_id |-> device_id,
     timestamp_ns |-> timestamp_ns, record_id |-> record_id,
     ret |-> ret, bcast |-> bcast]

\* __init__ and start_udp_listener: no sensor seen, the listener running
NetInit ==
    /\ sensor_last_seen = [d \in DeviceIds |-> None]
    /\ clock = 0
    /\ running = TRUE

\* __init__: no websocket connected, no broadcast scheduled
PubInit ==
    /\ websocket_clients = <<>>
    /\ broken = {}
    /\ tasks = <<>>
    /\ failed = {}
    /\ accepted = 0

\* no thread is inside _handle_trigger
ThreadInit == thread = [t \in Threads |-> ThreadIdle]

\* __init__ with a configuration that has no speech entries: speech is off,
\* and no hook has been called
SpeechInit ==
    /\ speech_settings = SpeechDefaults
    /\ hook = "none"

\* RockTimerServer.__init__
Init ==
    /\ state = IDLE
    /\ session = reset
    /\ history = <<>>
    /\ next_id = 1
    /\ lastOp = Op("init", "", 0, 0, None, FALSE)
    /\ assigned = {}
    /\ NetInit
    /\ PubInit
    /\ ThreadInit
    /\ SpeechInit

\* one call of _handle_trigger
HandleTrigger(device_id, timestamp_ns) ==
    LET r == handle_trigger(Coord, device_id, timestamp_ns)
    IN  /\ r.c.next_id <= MaxId + 1
        /\ Becomes(r.c)
        /\ lastOp' = Op("trigger", device_id, timestamp_ns, 0, None, r.bcast)

\* the UDP listener forwards a trigger message to _handle_trigger when its
\* device_id and timestamp_ns are both true values
UdpTrigger ==
    \E device_id \in DeviceIds, timestamp_ns \in TimestampValues :
        /\ device_id # ""
        /\ timestamp_ns # 0
        /\ HandleTrigger(device_id, timestamp_ns)

\* the GPIO callback of the local sensor
LocalSensorTriggered ==
    \E trigger_time \in LocalClockValues :
        HandleTrigger("hog_close", trigger_time)

Arm ==
    LET r == arm(Coord)
    IN  /\ Becomes(r.c)
        /\ lastOp' = Op("arm", "", 0, 0, Some(r.ret), r.bcast)

Disarm ==
    LET r == disarm(Coord)
    IN  /\ Becomes(r.c)
        /\ lastOp' = Op("disarm", "", 0, 0, Some(r.ret), r.bcast)

DeleteRecord ==
    \E record_id \in 1..MaxId :
        LET r == delete_record(Coord, record_id)
        IN  /\ Becomes(r.c)
            /\ lastOp' = Op("delete", "", 0, record_id, Some(r.ret), FALSE)

ClearHistory ==
    /\ SetCoord(clear_history(Coord))
    /\ assigned' = {}
    /\ UNCHANGED <<speechVars, netVars, pubVars, thrVars>>
    /\ lastOp' = Op("clear", "", 0, 0, None, FALSE)

Next ==
    \/ UdpTrigger
    \/ LocalSensorTriggered
    \/ Arm
    \/ Disarm
    \/ DeleteRecord
    \/ ClearHistory

Spec == Init /\ [][Next]_vars

-----------------------------------------------------------------------------
(* Specification SpecFull: the same operations, started after            *)
(* HistoryLimit - 1 runs (arm, tee at -1_000_000, hog_close at 2_000_000) *)
(* have been completed, so that the history reaches its limit.            *)

\* the record each of those runs leaves in the history
RunRecord(id) ==
    TimingRecord(id, Some(Now), Some(Ratio(3000000, NsPerMs)), None, None)

\* the history after n such runs, most recent first
RunHistory(n) == [i \in 1..n |-> RunRecord(n + 1 - i)]

\* the server after HistoryLimit - 1 completed runs and a disarm
FullInit ==
    /\ state = IDLE
    /\ session = reset
    /\ history = RunHistory(HistoryLimit - 1)
    /\ next_id = HistoryLimit
    /\ lastOp = Op("init", "", 0, 0, None, FALSE)
    /\ assigned = 1..(HistoryLimit - 1)
    /\ NetInit
    /\ PubInit
    /\ ThreadInit
    /\ SpeechInit

\* one call of _handle_trigger; completions are explored for the ids
\* HistoryLimit .. HistoryLimit + MaxOver - 1 and, after a clear, 1 .. MaxId
FullHandleTrigger(device_id, timestamp_ns) ==
    LET r == handle_trigger(Coord, device_id, timestamp_ns)
    IN  /\ r.c.next_id # next_id =>
              \/ next_id <= MaxId
              \/ next_id >= HistoryLimit /\ next_id < HistoryLimit + MaxOver
        /\ Becomes(r.c)
        /\ lastOp' = Op("trigger", device_id, timestamp_ns, 0, None, r.bcast)

FullUdpTrigger ==
    \E device_id \in {"tee", "hog_close", "hog_far"},
       timestamp_ns \in FullTimestamps :
        /\ timestamp_ns # 0
        /\ FullHandleTrigger(device_id, timestamp_ns)

\* delete_record for the oldest id and for the ids around the limit
FullDeleteRecord ==
    \E record_id \in {1, HistoryLimit, HistoryLimit + 1} :
        LET r == delete_record(Coord, record_id)
        IN  /\ Becomes(r.c)
            /\ lastOp' = Op("delete", "", 0, record_id, Some(r.ret), FALSE)

FullNext ==
    \/ FullUdpTrigger
    \/ Arm
    \/ Disarm
    \/ FullDeleteRecord
    \/ ClearHistory

SpecFull == FullInit /\ [][FullNext]_vars

-----------------------------------------------------------------------------
(* Specification SpecIngress: the UDP listener thread, the liveness table  *)
(* and the wall clock, with arm and disarm from the HTTP API and the GPIO  *)
(* callback of the local sensor.                                           *)

\* the datagrams of the model
Messages ==
    {Msg("ok", "trigger", d, t) : d \in IngressDevices, t \in IngressTimestamps}
    \cup {Msg("ok", "heartbeat", d, 0) : d \in IngressDevices}
    \cup {Msg("ok", "status", "tee", 0)}
    \cup {Msg("str_timestamp", "trigger", "hog_close", 0)}
    \cup {Msg(f, "", "", 0) : f \in {"undecodable", "invalid_json", "not_object"}}

\* a datagram is malformed when it is no JSON object, or a trigger or
\* heartbeat without device_id, or a trigger whose timestamp_ns is absent
\* or no integer
Malformed(msg) ==
    \/ msg.form # "ok"
    \/ msg.type \in {"trigger", "heartbeat"} /\ msg.device_id = ""
    \/ msg.type = "trigger" /\ msg.timestamp_ns = 0

\* the name under which lastOp records the receipt of a datagram
MsgOp(msg) ==
    IF Malformed(msg) THEN "malformed"
    ELSE IF msg.type = "trigger" THEN "trigger"
    ELSE msg.type

\* the listener thread receives one datagram
UdpReceive ==
    \E msg \in Messages :
        LET r == udp_receive(Coord, sensor_last_seen, msg, clock)
        IN  /\ running
            /\ r.c.next_id <= MaxId + 1
            /\ SetCoord(r.c)
            /\ assigned' = assigned \cup Ids(r.c.history)
            /\ sensor_last_seen' = r.seen
            /\ running' = r.running
            /\ UNCHANGED <<speechVars, clock, pubVars, thrVars>>
            /\ lastOp' = Op(MsgOp(msg), msg.device_id, msg.timestamp_ns, 0,
                            None, r.bcast)

\* the GPIO callback of the local sensor: _handle_trigger("hog_close", ...)
\* and nothing else
IngressLocalSensor ==
    \E trigger_time \in {t \in IngressTimestamps : t > 0} :
        LET r == handle_trigger(Coord, "hog_close", trigger_time)
        IN  /\ r.c.next_id <= MaxId + 1
            /\ Becomes(r.c)
            /\ lastOp' = Op("local_trigger", "hog_close", trigger_time, 0,
                            None, r.bcast)

\* a second passes
Tick ==
    /\ clock < MaxClock
    /\ clock' = clock + 1
    /\ UNCHANGED <<speechVars, state, session, history, next_id, assigned,
                   sensor_last_seen, running, pubVars, thrVars>>
    /\ lastOp' = Op("tick", "", 0, 0, None, FALSE)

IngressNext ==
    \/ UdpReceive
    \/ IngressLocalSensor
    \/ Tick
    \/ Arm
    \/ Disarm

SpecIngress == Init /\ [][IngressNext]_vars

-----------------------------------------------------------------------------
(* Specification SpecBroadcast: websocket clients and the _broadcast_state *)
(* coroutines.  A coroutine runs on the event loop without interruption    *)
(* from one await to the next, so it is one step from its start to its     *)
(* first await ws.send_text, and one step from the end of each send to the *)
(* next await or to its return.                                            *)

\* TimingSession.to_dict
to_dict(s) ==
    [tee_time_ns |-> s.tee_time_ns,
     hog_close_time_ns |-> s.hog_close_time_ns,
     hog_far_time_ns |-> s.hog_far_time_ns,
     tee_to_hog_close_ms |-> tee_to_hog_close_ms(s),
     hog_to_hog_ms |-> hog_to_hog_ms(s),
     total_ms |-> total_ms(s),
     has_hog_close |-> s.tee_time_ns # None /\ s.hog_close_time_ns # None,
     has_hog_far |-> s.hog_far_time_ns # None,
     started_at |-> s.started_at]

\* get_state(); 'sensors' is always the empty dict, here the function
\* with the empty domain
get_state(c) ==
    [state |-> c.state, session |-> to_dict(c.session), sensors |-> <<>>]

\* the elements of a list
Range(l) == {l[i] : i \in 1..Len(l)}

\* list.remove(ws) under "except ValueError: pass": the first occurrence
\* goes, an absent element leaves the list as it is
remove(l, ws) ==
    IF ws \in Range(l)
    THEN LET i == CHOOSE i \in 1..Len(l) :
                      l[i] = ws /\ \A j \in 1..(i - 1) : l[j] # ws
         IN  SubSeq(l, 1, i - 1) \o SubSeq(l, i + 1, Len(l))
    ELSE l

\* "for ws in dead: websocket_clients.remove(ws)"
RECURSIVE remove_dead(_, _)
remove_dead(l, dead) ==
    IF dead = <<>> THEN l
    ELSE remove_dead(remove(l, Head(dead)), Tail(dead))

\* a _broadcast_state coroutine that was scheduled and has not started
NewTask ==
    [pc |-> "scheduled", message |-> None, targets |-> <<>>, i |-> 0,
     dead |-> <<>>, sent |-> {}]

\* broadcast_state(): run_coroutine_threadsafe(_broadcast_state(), loop)
broadcast_state(ts) == Append(ts, NewTask)

\* the start of _broadcast_state: the message and the copy of the list
task_start(task, c, clients) ==
    [task EXCEPT !.pc = IF clients = <<>> THEN "done" ELSE "sending",
                 !.message = Some(get_state(c)),
                 !.targets = clients,
                 !.i = 1]

\* the end of one "await ws.send_text(message)": the websocket got the
\* message, or the send raised and the websocket is appended to dead
send_text(task, gone) ==
    LET ws == task.targets[task.i]
        t1 == IF ws \in gone
              THEN [task EXCEPT !.dead = Append(@, ws), !.i = @ + 1]
              ELSE [task EXCEPT !.sent = @ \cup {ws}, !.i = @ + 1]
    IN  IF t1.i > Len(t1.targets) THEN [t1 EXCEPT !.pc = "done"] ELSE t1

\* a command that calls broadcast_state when r.bcast
Publishes(r) ==
    /\ r.bcast => Len(tasks) < MaxPublish
    /\ SetCoord(r.c)
    /\ assigned' = assigned \cup Ids(r.c.history)
    /\ tasks' = IF r.bcast THEN broadcast_state(tasks) ELSE tasks
    /\ UNCHANGED <<speechVars, netVars, thrVars, websocket_clients, broken, failed,
                   accepted>>

PubArm ==
    LET r == arm(Coord)
    IN  /\ Publishes(r)
        /\ lastOp' = Op("arm", "", 0, 0, Some(r.ret), r.bcast)

PubDisarm ==
    LET r == disarm(Coord)
    IN  /\ Publishes(r)
        /\ lastOp' = Op("disarm", "", 0, 0, Some(r.ret), r.bcast)

\* websocket_endpoint up to its receive loop: accept, append, first send
Connect ==
    /\ accepted < MaxClients
    /\ accepted' = accepted + 1
    /\ websocket_clients' = Append(websocket_clients, accepted + 1)
    /\ UNCHANGED <<speechVars, state, session, history, next_id, assigned, netVars,
                   thrVars, broken, tasks, failed>>
    /\ lastOp' = Op("connect", "", 0, accepted + 1, None, FALSE)

\* the peer of a connected websocket goes away
PeerGone ==
    \E ws \in Range(websocket_clients) \ broken :
        /\ broken' = broken \cup {ws}
        /\ UNCHANGED <<speechVars, state, session, history, next_id, assigned, netVars,
                       thrVars, websocket_clients, tasks, failed, accepted>>
        /\ lastOp' = Op("peer_gone", "", 0, ws, None, FALSE)

\* websocket_endpoint after WebSocketDisconnect: the finally clause
Disconnect ==
    \E ws \in Range(websocket_clients) \cap broken :
        /\ websocket_clients' = remove(websocket_clients, ws)
        /\ UNCHANGED <<speechVars, state, session, history, next_id, assigned, netVars,
                       thrVars, broken, tasks, failed, accepted>>
        /\ lastOp' = Op("disconnect", "", 0, ws, None, FALSE)

\* the event loop starts the oldest scheduled _broadcast_state
TaskStart ==
    \E k \in 1..Len(tasks) :
        /\ tasks[k].pc = "scheduled"
        /\ \A j \in 1..(k - 1) : tasks[j].pc # "scheduled"
        /\ tasks' = [tasks EXCEPT
                        ![k] = task_start(@, Coord, websocket_clients)]
        /\ UNCHANGED <<speechVars, state, session, history, next_id, assigned, netVars,
                       thrVars, websocket_clients, broken, failed, accepted>>
        /\ lastOp' = Op("publish_start", "", 0, k, None, FALSE)

\* one send of a _broadcast_state ends; after the last one the coroutine
\* removes the dead websockets and returns
TaskSend ==
    \E k \in 1..Len(tasks) :
        LET ws == tasks[k].targets[tasks[k].i]
            t1 == send_text(tasks[k], broken)
        IN  /\ tasks[k].pc = "sending"
            /\ tasks' = [tasks EXCEPT ![k] = t1]
            /\ failed' = IF ws \in broken THEN failed \cup {ws} ELSE failed
            /\ websocket_clients' =
                   IF t1.pc = "done"
                   THEN remove_dead(websocket_clients, t1.dead)
                   ELSE websocket_clients
            /\ UNCHANGED <<speechVars, state, session, history, next_id, assigned,
                           netVars, thrVars, broken, accepted>>
            /\ lastOp' = Op("send", "", 0, k, None, FALSE)

BroadcastNext ==
    \/ PubArm
    \/ PubDisarm
    \/ Connect
    \/ PeerGone
    \/ Disconnect
    \/ TaskStart
    \/ TaskSend

SpecBroadcast == Init /\ [][BroadcastNext]_vars

-----------------------------------------------------------------------------
(* Specification SpecThreads: _handle_trigger runs on the UDP listener     *)
(* thread and on the GPIO callback thread, the commands and get_state run  *)
(* on the event loop thread, and the code takes no lock.  A thread is      *)
(* followed through _handle_trigger statement by statement: pc is the line *)
(* of the statement it executes next.  The call of broadcast_state that    *)
(* ends the handler is taken together with the statement before it.        *)

\* the thread after a statement that jumps to line pc
Goto(th, pc) == [th EXCEPT !.pc = pc]

\* one statement of _handle_trigger (and of _complete_measurement, which it
\* calls) executed by the thread th: the coordinator and the thread after
\* it, and whether the handler called broadcast_state
trigger_step(c, th) ==
    LET device_id == th.device_id
        timestamp_ns == th.timestamp_ns
        on(c1, pc) == [c |-> c1, th |-> Goto(th, pc), bcast |-> FALSE]
        return(c1, bcast) == [c |-> c1, th |-> ThreadIdle, bcast |-> bcast]
    IN  CASE th.pc = "l379" ->
               IF device_id = "hog_far" /\ c.state = COMPLETED
               THEN on(c, "l380") ELSE on(c, "l388")
          [] th.pc = "l380" ->
               IF ~Truthy(c.session.hog_far_time_ns)
               THEN on(c, "l381") ELSE return(c, FALSE)
          [] th.pc = "l381" ->
               on([c EXCEPT !.session.hog_far_time_ns = Some(timestamp_ns)],
                  "l382")
          [] th.pc = "l382" -> return(update_last_record(c), TRUE)
          [] th.pc = "l388" ->
               IF c.state \notin {ARMED, MEASURING}
               THEN return(c, FALSE) ELSE on(c, "l393")
          [] th.pc = "l393" ->
               IF c.state = ARMED THEN on(c, "l394") ELSE on(c, "l398")
          [] th.pc = "l394" -> on([c EXCEPT !.state = MEASURING], "l395")
          [] th.pc = "l395" ->
               on([c EXCEPT !.session.started_at = Some(Now)], "l398")
          [] th.pc = "l398" ->
               IF device_id = "tee" /\ ~Truthy(c.session.tee_time_ns)
               THEN on(c, "l399")
               ELSE IF device_id = "hog_close"
                       /\ ~Truthy(c.session.hog_close_time_ns)
               THEN on(c, "l403")
               ELSE IF device_id = "hog_far"
                       /\ ~Truthy(c.session.hog_far_time_ns)
               THEN on(c, "l411")
               ELSE return(c, TRUE)
          [] th.pc = "l399" ->
               return([c EXCEPT !.session.tee_time_ns = Some(timestamp_ns)],
                      TRUE)
          [] th.pc = "l403" ->
               IF Truthy(c.session.tee_time_ns)
                  /\ timestamp_ns > c.session.tee_time_ns[1]
               THEN on(c, "l404") ELSE return(c, TRUE)
          [] th.pc = "l404" ->
               on([c EXCEPT !.session.hog_close_time_ns = Some(timestamp_ns)],
                  "l422")
          [] th.pc = "l422" -> on([c EXCEPT !.state = COMPLETED], "l424")
          [] th.pc = "l424" ->
               return([complete_measurement(c) EXCEPT !.state = c.state],
                      TRUE)
          [] th.pc = "l411" ->
               IF Truthy(c.session.hog_close_time_ns)
                  /\ timestamp_ns > c.session.hog_close_time_ns[1]
               THEN on(c, "l412") ELSE return(c, TRUE)
          [] th.pc = "l412" ->
               on([c EXCEPT !.session.hog_far_time_ns = Some(timestamp_ns)],
                  "l413")
          [] th.pc = "l413" -> return(update_last_record(c), TRUE)

\* a thread is inside _handle_trigger
Busy(t) == thread[t].pc # "idle"

\* the coordinator becomes c and the threads become ths
ThreadBecomes(c, ths) ==
    /\ SetCoord(c)
    /\ assigned' = assigned \cup Ids(c.history)
    /\ thread' = ths
    /\ UNCHANGED <<speechVars, netVars, pubVars>>

\* the statement the thread executes next raises: after the record is
\* inserted, line 435 formats the first split with ":.1f", which is a
\* TypeError when the split is None
raises(c, th) ==
    th.pc = "l424" /\ tee_to_hog_close_ms(c.session) = None

\* the thread t executes its next statement of _handle_trigger; an
\* exception ends the call before broadcast_state and, on the UDP listener
\* thread, ends the listener
Statement(t, th) ==
    LET r == trigger_step(Coord, th)
    IN  /\ r.c.next_id <= ThreadRuns + 1
        /\ SetCoord(r.c)
        /\ assigned' = assigned \cup Ids(r.c.history)
        /\ thread' = [thread EXCEPT ![t] = r.th]
        /\ running' = (running /\ ~(t = "udp" /\ raises(Coord, th)))
        /\ UNCHANGED <<speechVars, sensor_last_seen, clock, pubVars>>
        /\ lastOp' = Op(t, "", 0, 0, None, r.bcast /\ ~raises(Coord, th))

\* the UDP listener thread calls _handle_trigger and executes its first
\* statement
UdpEnter ==
    \E trigger \in ThreadTriggers :
        /\ running
        /\ ~Busy("udp")
        /\ Statement("udp", [pc |-> "l379", device_id |-> trigger[1],
                             timestamp_ns |-> trigger[2]])

\* the GPIO callback thread calls _handle_trigger("hog_close", time_ns())
GpioEnter ==
    \E trigger \in {tr \in ThreadTriggers : tr[1] = "hog_close"} :
        /\ ~Busy("gpio")
        /\ Statement("gpio", [pc |-> "l379", device_id |-> "hog_close",
                              timestamp_ns |-> trigger[2]])

\* a thread inside _handle_trigger executes its next statement
ThreadStep ==
    \E t \in Threads :
        /\ Busy(t)
        /\ Statement(t, thread[t])

ThreadArm ==
    LET r == arm(Coord)
    IN  /\ ThreadBecomes(r.c, thread)
        /\ lastOp' = Op("arm", "", 0, 0, Some(r.ret), r.bcast)

ThreadDisarm ==
    LET r == disarm(Coord)
    IN  /\ ThreadBecomes(r.c, thread)
        /\ lastOp' = Op("disarm", "", 0, 0, Some(r.ret), r.bcast)

ThreadDeleteRecord ==
    \E record_id \in 1..ThreadRuns :
        LET r == delete_record(Coord, record_id)
        IN  /\ ThreadBecomes(r.c, thread)
            /\ lastOp' = Op("delete", "", 0, record_id, Some(r.ret), FALSE)

ThreadClearHistory ==
    /\ history # <<>>
    /\ SetCoord(clear_history(Coord))
    /\ assigned' = {}
    /\ UNCHANGED <<speechVars, netVars, pubVars, thread>>
    /\ lastOp' = Op("clear", "", 0, 0, None, FALSE)

\* _broadcast_state reads the state it is going to send
GetState ==
    /\ UNCHANGED <<speechVars, state, session, history, next_id, assigned, netVars,
                   pubVars, thread>>
    /\ lastOp' = Op("get_state", "", 0, 0, Some(get_state(Coord)), FALSE)

ThreadsNext ==
    \/ UdpEnter
    \/ GpioEnter
    \/ ThreadStep
    \/ ThreadArm
    \/ ThreadDisarm
    \/ ThreadDeleteRecord
    \/ ThreadClearHistory
    \/ GetState

SpecThreads == Init /\ [][ThreadsNext]_vars

\* Specification SpecSnapshot: the executions of SpecThreads in which the
\* local sensor stays silent, so that the UDP listener thread is the only
\* one that calls _handle_trigger
SnapshotNext ==
    \/ UdpEnter
    \/ ThreadStep
    \/ ThreadArm
    \/ ThreadDisarm
    \/ GetState

SpecSnapshot == Init /\ [][SnapshotNext]_vars

-----------------------------------------------------------------------------
(* The speech hooks.  Specification SpecSpeech is Spec with the hooks that *)
(* arm and _handle_trigger call, with POST /api/settings, and with a TTS   *)
(* spawn that may fail at every call.                                      *)

\* the next state is the coordinator c, after a call whose hook did h
SpeechBecomes(c, h) ==
    /\ SetCoord(c)
    /\ assigned' = assigned \cup Ids(c.history)
    /\ hook' = h
    /\ UNCHANGED <<netVars, pubVars, thrVars, speech_settings>>

\* one call of _handle_trigger
SpeechHandleTrigger(device_id, timestamp_ns) ==
    \E spawn_ok \in BOOLEAN :
        LET r == handle_trigger_speak(Coord, device_id, timestamp_ns,
                                      speech_settings, spawn_ok)
        IN  /\ r.c.next_id <= MaxId + 1
            /\ SpeechBecomes(r.c, r.hook)
            /\ lastOp' = Op("trigger", device_id, timestamp_ns, 0, None,
                            r.bcast)

SpeechUdpTrigger ==
    \E device_id \in DeviceIds, timestamp_ns \in TimestampValues :
        /\ device_id # ""
        /\ timestamp_ns # 0
        /\ SpeechHandleTrigger(device_id, timestamp_ns)

SpeechLocalSensorTriggered ==
    \E trigger_time \in LocalClockValues :
        SpeechHandleTrigger("hog_close", trigger_time)

SpeechArm ==
    \E spawn_ok \in BOOLEAN :
        LET r == arm_speak(Coord, speech_settings, spawn_ok)
        IN  /\ SpeechBecomes(r.c, r.hook)
            /\ lastOp' = Op("arm", "", 0, 0, r.ret, r.bcast)

\* POST /api/settings (lines 672-679)
UpdateSettings ==
    \E settings \in SpeechSettings :
        /\ speech_settings' = settings
        /\ lastOp' = Op("settings", "", 0, 0, None, FALSE)
        /\ UNCHANGED <<state, session, history, next_id, assigned, netVars,
                       pubVars, thrVars, hook>>

SpeechNext ==
    \/ SpeechUdpTrigger
    \/ SpeechLocalSensorTriggered
    \/ SpeechArm
    \/ Disarm
    \/ DeleteRecord
    \/ ClearHistory
    \/ UpdateSettings

SpecSpeech == Init /\ [][SpeechNext]_vars

-----------------------------------------------------------------------------
(* Properties.  A step is "a call of X" when lastOp' names X; lastOp'.from *)
(* is then the system state the call was made in.                          *)

\* the last step was a call of _handle_trigger for this identity
TriggerStep(device_id) ==
    lastOp'.op = "trigger" /\ lastOp'.device_id = device_id

\* the largest id in a history, 0 when it is empty
MaxIdOf(h) ==
    LET ids == {h[i].id : i \in 1..Len(h)}
    IN  IF ids = {} THEN 0 ELSE CHOOSE m \in ids : \A k \in ids : k <= m

\* the step is a completion: a trigger that moved the state to Completed
CompletionStep ==
    lastOp'.op = "trigger" /\ state # COMPLETED /\ state' = COMPLETED

\* C1: in every reachable state the recorded timestamps of the session are
\* strictly increasing in traversal order: tee < hog_close when both are
\* recorded, and hog_close < hog_far when both are recorded.
C1_TimestampsIncreasing ==
    /\ (session.tee_time_ns # None /\ session.hog_close_time_ns # None
          => session.tee_time_ns[1] < session.hog_close_time_ns[1])
    /\ (session.hog_close_time_ns # None /\ session.hog_far_time_ns # None
          => session.hog_close_time_ns[1] < session.hog_far_time_ns[1])

\* C2: first-wins: a timestamp recorded in the session is changed by no
\* trigger; the only steps that change it are arm and disarm, which reset
\* the whole session.
C2_FirstWins ==
    [][\A f \in {"tee_time_ns", "hog_close_time_ns", "hog_far_time_ns"} :
          session[f] # None /\ session'[f] # session[f]
            => lastOp'.op \in {"arm", "disarm"} /\ session' = reset]_vars

\* C2 witness: a tee trigger carrying another timestamp than the recorded
\* one was handled in Measuring and the recorded one is still there
C2_Witness ==
    /\ lastOp.op = "trigger" /\ lastOp.device_id = "tee"
    /\ lastOp.from = MEASURING
    /\ session.tee_time_ns # None
    /\ session.tee_time_ns[1] # lastOp.timestamp_ns

\* C3: arm() called in Armed or Measuring returns false and leaves the
\* state, the session and the history unchanged; arm() called in Idle or
\* Completed returns true and the state becomes Armed.
C3_ArmGuard ==
    [][lastOp'.op = "arm" =>
          IF state \in {ARMED, MEASURING}
          THEN lastOp'.ret = Some(FALSE)
               /\ UNCHANGED <<state, session, history, next_id>>
          ELSE lastOp'.ret = Some(TRUE) /\ state' = ARMED]_vars

\* C3 witness: arm() was refused in Measuring with a tee timestamp recorded
C3_Witness ==
    /\ lastOp.op = "arm" /\ lastOp.ret = Some(FALSE)
    /\ state = MEASURING
    /\ session.tee_time_ns # None

C5_CompletionRecord ==
    [][/\ TriggerStep("hog_close")
       /\ state \in {ARMED, MEASURING}
       /\ session.tee_time_ns # None
       /\ lastOp'.timestamp_ns > session.tee_time_ns[1]
       => LET gap == lastOp'.timestamp_ns - session.tee_time_ns[1]
              rest == Tail(history')
          IN  /\ state' = COMPLETED
              /\ history' # <<>>
              /\ Len(history') <= Len(history) + 1
              /\ Len(rest) >= Len(history) - 1
              /\ rest = SubSeq(history, 1, Len(rest))
              /\ history'[1].tee_to_hog_close_ms = Some(Ratio(gap, 1000000))
              /\ (gap = 3000000 =>
                    history'[1].tee_to_hog_close_ms = Some([num |-> 3, den |-> 1]))
              /\ (gap = 1 =>
                    history'[1].tee_to_hog_close_ms
                        = Some([num |-> 1, den |-> 1000000]))
              /\ history'[1].hog_to_hog_ms = None
              /\ history'[1].total_ms = None]_vars

\* C5 witness: hog_close was admitted 3_000_000 ns after tee, on top of an
\* older record
C5_Witness ==
    /\ lastOp.op = "trigger" /\ lastOp.device_id = "hog_close"
    /\ lastOp.from = MEASURING
    /\ state = COMPLETED
    /\ session.tee_time_ns = Some(-1000000)
    /\ session.hog_close_time_ns = Some(2000000)
    /\ Len(history) = 2
    /\ history[1].tee_to_hog_close_ms = Some([num |-> 3, den |-> 1])

\* C6 as claimed: every record created by a completion gets the largest id
\* of the history just before the completion plus one (1 when the history
\* is empty).
C6_IdIsMaxPlusOne ==
    [][CompletionStep => history'[1].id = MaxIdOf(history) + 1]_vars

\* C6: every record created by a completion gets the value of the next-id
\* counter, which is 1 at the start, grows by one at each completion and is
\* changed otherwise only by a clear, which resets it to 1.  The id is
\* greater than every id in the history just before the completion, and it
\* is the previous maximum plus one whenever the record created last is
\* still in the history (or none was created since the start or the last
\* clear).
C6_IdIsCounter ==
    [][/\ CompletionStep =>
            /\ history'[1].id = next_id
            /\ next_id' = next_id + 1
            /\ history'[1].id > MaxIdOf(history)
            /\ (MaxIdOf(history) = next_id - 1
                  => history'[1].id = MaxIdOf(history) + 1)
       /\ next_id' # next_id =>
            \/ CompletionStep
            \/ lastOp'.op = "clear" /\ next_id' = 1]_vars

\* C6 witness: a completion created the record with id 2 after the record
\* with id 1 had been deleted
C6_Witness ==
    /\ lastOp.op = "trigger" /\ lastOp.from = MEASURING
    /\ state = COMPLETED
    /\ Len(history) = 1 /\ history[1].id = 2
    /\ next_id = 3

\* C7: a hog_close trigger is rejected when tee is not recorded or its
\* timestamp is <= the recorded tee timestamp: the hog_close slot and the
\* history do not change, and with tee recorded the system state does not
\* change either.
C7_HogCloseRejected ==
    [][/\ TriggerStep("hog_close")
       /\ \/ session.tee_time_ns = None
          \/ lastOp'.timestamp_ns <= session.tee_time_ns[1]
       => /\ session'.hog_close_time_ns = session.hog_close_time_ns
          /\ (session.hog_close_time_ns = None
                => session'.hog_close_time_ns = None)
          /\ UNCHANGED <<history, next_id>>
          /\ (session.tee_time_ns # None => UNCHANGED state)]_vars

\* C7 witness: a hog_close trigger with the tee timestamp itself was
\* rejected in Measuring
C7_Witness ==
    /\ lastOp.op = "trigger" /\ lastOp.device_id = "hog_close"
    /\ lastOp.from = MEASURING /\ state = MEASURING
    /\ session.tee_time_ns # None
    /\ lastOp.timestamp_ns = session.tee_time_ns[1]
    /\ session.hog_close_time_ns = None

\* C8: a hog_far trigger handled in Completed with the hog_far slot empty
\* and a timestamp greater than the hog_close timestamp sets the second
\* split of the front record to (hog_far_ns - hog_close_ns) / 1e6 and its
\* total to (hog_far_ns - tee_ns) / 1e6, and the state stays Completed.
C8_Backfill ==
    [][/\ TriggerStep("hog_far")
       /\ state = COMPLETED
       /\ session.hog_far_time_ns = None
       /\ lastOp'.timestamp_ns > session.hog_close_time_ns[1]
       => LET far == lastOp'.timestamp_ns
          IN  /\ state' = COMPLETED
              /\ Len(history') = Len(history)
              /\ history # <<>> =>
                   /\ history'[1].hog_to_hog_ms
                        = Some(Ratio(far - session.hog_close_time_ns[1], 1000000))
                   /\ history'[1].total_ms
                        = Some(Ratio(far - session.tee_time_ns[1], 1000000))
                   /\ (far - session.hog_close_time_ns[1] = 1
                         /\ far - session.tee_time_ns[1] = 3000001
                         => /\ history'[1].hog_to_hog_ms
                                 = Some([num |-> 1, den |-> 1000000])
                            /\ history'[1].total_ms
                                 = Some([num |-> 3000001, den |-> 1000000]))]_vars

\* C8 witness: hog_far arrived in Completed 1 ns after hog_close and
\* 3_000_001 ns after tee, and the front record holds both values
C8_Witness ==
    /\ lastOp.op = "trigger" /\ lastOp.device_id = "hog_far"
    /\ lastOp.from = COMPLETED /\ state = COMPLETED
    /\ lastOp.bcast
    /\ session.tee_time_ns = Some(-1000000)
    /\ session.hog_close_time_ns = Some(2000000)
    /\ session.hog_far_time_ns = Some(2000001)
    /\ history # <<>>
    /\ history[1].hog_to_hog_ms = Some([num |-> 1, den |-> 1000000])
    /\ history[1].total_ms = Some([num |-> 3000001, den |-> 1000000])

\* C9: a hog_far trigger handled in Completed with a timestamp <= the
\* recorded hog_close timestamp is rejected: the hog_far slot of the session
\* stays unset and the second split of the front record stays as it was
\* (null).
C9_LateHogFarRejected ==
    [][/\ TriggerStep("hog_far")
       /\ state = COMPLETED
       /\ session.hog_far_time_ns = None
       /\ lastOp'.timestamp_ns <= session.hog_close_time_ns[1]
       => /\ session'.hog_far_time_ns = None
          /\ (history # <<>> =>
                history'[1].hog_to_hog_ms = history[1].hog_to_hog_ms)]_vars

\* C10: a trigger handled in a state that is neither Armed nor Measuring is
\* dropped, except hog_far in Completed with the hog_far slot empty: every
\* trigger in Idle and every tee or hog_close trigger in Completed leaves
\* the state, the session and the history unchanged.
C10_DroppedWhenNotReady ==
    [][/\ lastOp'.op = "trigger"
       /\ state \notin {ARMED, MEASURING}
       /\ ~(lastOp'.device_id = "hog_far" /\ state = COMPLETED
              /\ session.hog_far_time_ns = None)
       => UNCHANGED <<state, session, history, next_id>>]_vars

\* C10 witness: a tee trigger was handled in Idle
C10_Witness ==
    /\ lastOp.op = "trigger" /\ lastOp.device_id = "tee"
    /\ lastOp.from = IDLE /\ state = IDLE
    /\ session = reset

\* C15: clear_history() empties the history and resets the next id to 1, so
\* the first record completed after a clear gets id 1; when ids had been
\* assigned before the clear, id 1 is one of them and is used again.
C15_ClearResetsCounter ==
    [][/\ lastOp'.op = "clear" =>
            /\ history' = <<>>
            /\ next_id' = 1
            /\ assigned' = {}
            /\ (assigned # {} => 1 \in assigned)
       /\ (CompletionStep /\ assigned = {}) =>
            /\ history'[1].id = 1
            /\ Len(history') = 1]_vars

\* C15 witness: clear_history() was called after a completion of the
\* current session, so that id 1 had been assigned
C15_Witness ==
    /\ lastOp.op = "clear"
    /\ state = COMPLETED
    /\ history = <<>> /\ next_id = 1 /\ assigned = {}

\* C16: between two clears no id is used twice: every new record gets an id
\* greater than every id assigned since the last clear, whether those
\* records are still in the history or not.
C16_NoReuseBetweenClears ==
    [][CompletionStep =>
          /\ history'[1].id \notin assigned
          /\ \A a \in assigned : history'[1].id > a
          /\ Ids(history) \subseteq assigned
          /\ assigned' = assigned \cup {history'[1].id}]_vars

\* C16 witness: record 102 was created when record 1 had been trimmed by
\* an earlier completion and record 101 had been deleted
C16_Witness ==
    /\ lastOp.op = "trigger" /\ lastOp.device_id = "hog_close"
    /\ state = COMPLETED
    /\ history # <<>>
    /\ history[1].id = 102
    /\ {1, 101} \subseteq assigned
    /\ Ids(history) \cap {1, 101} = {}
    /\ 2 \in Ids(history)

\* C18: delete_record(id) returns true and removes exactly the record with
\* that id, keeping the order of the others, when such a record is in the
\* history; otherwise it returns false and leaves the history unchanged.
\* The system state, the session and the next id are unchanged either way.
C18_DeleteRecord ==
    [][lastOp'.op = "delete" =>
          LET id == lastOp'.record_id
              Other(r) == r.id # id
          IN  /\ IF id \in Ids(history)
                 THEN /\ lastOp'.ret = Some(TRUE)
                      /\ history' = SelectSeq(history, Other)
                      /\ Len(history') = Len(history) - 1
                 ELSE /\ lastOp'.ret = Some(FALSE)
                      /\ history' = history
              /\ UNCHANGED <<state, session, next_id>>]_vars

\* C18 witness: the older of two records was deleted and the newer one is
\* still there
C18_Witness ==
    /\ lastOp.op = "delete" /\ lastOp.record_id = 1
    /\ lastOp.ret = Some(TRUE)
    /\ Len(history) = 1 /\ history[1].id = 2

\* the ids of a history decrease strictly from front to back
Decreasing(h) ==
    \A i \in 1..Len(h) : \A j \in (i + 1)..Len(h) : h[i].id > h[j].id

\* C17: in every reachable state the history holds at most 100 records,
\* most recent first (ids strictly decreasing from front to back); a
\* completion on a history of 100 records drops exactly the last one, and
\* on a shorter history drops none.
C17_BoundedHistory ==
    /\ [](Len(history) <= 100 /\ Decreasing(history))
    /\ [][CompletionStep =>
            /\ history'[1].id = next_id
            /\ IF Len(history) = 100
               THEN /\ Len(history') = 100
                    /\ Tail(history') = SubSeq(history, 1, 99)
               ELSE Tail(history') = history]_vars

\* C17 witness: the completion that made record 101 found 100 records and
\* dropped the oldest, record 1
C17_Witness ==
    /\ lastOp.op = "trigger" /\ state = COMPLETED
    /\ Len(history) = 100
    /\ history[1].id = 101
    /\ history[100].id = 2

\* C13: a malformed datagram (undecodable bytes, invalid JSON, JSON that is
\* no object, missing or wrongly typed device_id or timestamp_ns) is
\* discarded without changing the coordinator, and the listener loop keeps
\* running, so that a later well-formed trigger is still processed.
C13_MalformedDiscarded ==
    [][lastOp'.op = "malformed" =>
          /\ UNCHANGED <<state, session, history, next_id>>
          /\ running']_vars

\* the three sensors of get_sensors_status
Sensors == {"tee", "hog_close", "hog_far"}

\* C19: a sensor with a liveness entry is reported online exactly when the
\* age of the entry is <= the timeout (2 s here), offline otherwise; every
\* message received from it (trigger or heartbeat) renews the entry, so
\* that a sensor that went offline is online again.
C19_OnlineWithinTimeout ==
    /\ [](\A d \in Sensors :
            sensor_last_seen[d] # None =>
              /\ sensor_status(sensor_last_seen, d, clock)
                    \in {"online", "offline"}
              /\ sensor_status(sensor_last_seen, d, clock) = "online"
                    <=> clock - sensor_last_seen[d][1].last_seen_ts <= 2)
    /\ [][\A d \in Sensors :
            (lastOp'.op \in {"trigger", "heartbeat"} /\ lastOp'.device_id = d)
              => /\ sensor_last_seen'[d] # None
                 /\ sensor_last_seen'[d][1].last_seen_ts = clock'
                 /\ sensor_status(sensor_last_seen', d, clock') = "online"]_vars

\* C19 witness: tee was last seen 3 s ago and is reported offline, while
\* hog_close, whose heartbeat was just received, is online
C19_Witness ==
    /\ sensor_last_seen["tee"] # None
    /\ clock - sensor_last_seen["tee"][1].last_seen_ts = 3
    /\ sensor_status(sensor_last_seen, "tee", clock) = "offline"
    /\ lastOp.op = "heartbeat" /\ lastOp.device_id = "hog_close"
    /\ sensor_status(sensor_last_seen, "hog_close", clock) = "online"

\* C20: the local sensor hog_close is reported 'local' only until it has
\* produced an event: after the local sensor callback has fired, its
\* status is no longer 'local'.
C20_LocalUntilFirstEvent ==
    [][lastOp'.op = "local_trigger" =>
          sensor_status(sensor_last_seen', "hog_close", clock') # "local"]_vars

\* C14: when a broadcast has returned, every websocket of its list got the
\* message or is among its dead ones; and when a broadcast starts, no
\* websocket a send has failed for is in websocket_clients
C14_FailureIsolated ==
    /\ [](\A k \in 1..Len(tasks) :
              tasks[k].pc = "done" =>
                  Range(tasks[k].targets) =
                      tasks[k].sent \cup Range(tasks[k].dead))
    /\ [][lastOp'.op = "publish_start" =>
              Range(websocket_clients) \cap failed = {}]_vars

\* the first half of C14 alone
C14_OthersStillSent ==
    \A k \in 1..Len(tasks) :
        tasks[k].pc = "done" =>
            Range(tasks[k].targets) = tasks[k].sent \cup Range(tasks[k].dead)

\* a broadcast returned after one send failed and another succeeded
C14_OthersWitness ==
    \E k \in 1..Len(tasks) :
        /\ tasks[k].pc = "done"
        /\ tasks[k].dead # <<>>
        /\ tasks[k].sent # {}

\* C11: at most one thread is inside _handle_trigger, and arm, disarm,
\* delete_record and clear_history run only while no thread is inside it
C11_MutualExclusion ==
    /\ [](\A t1, t2 \in Threads : Busy(t1) /\ Busy(t2) => t1 = t2)
    /\ [][lastOp'.op \in {"arm", "disarm", "delete", "clear"} =>
              \A t \in Threads : ~Busy(t)]_vars

\* no thread is inside _handle_trigger: a moment between two complete
\* operations
Quiescent == \A t \in Threads : ~Busy(t)

\* hog_close is not recorded while the state is Measuring
NotPartial(s) ==
    s.state = MEASURING => s.session.hog_close_time_ns = None

\* under SpecSnapshot the values between two complete operations are
\* never hog_close recorded in the state Measuring, so get_state
\* returning such a pair returned a partially updated state
BetweenOperationsNotPartial == Quiescent => NotPartial(get_state(Coord))

\* C12: what get_state returns for a broadcast is the (state, session)
\* pair of a moment between two complete operations, never hog_close
\* recorded while the state is still Measuring
C12_ConsistentSnapshot ==
    lastOp.op = "get_state" => NotPartial(lastOp.ret[1])

\* the last step was the receipt of a parsed trigger or heartbeat that
\* carries a device_id (a trigger without a usable timestamp_ns included)
CarriesDeviceId ==
    /\ lastOp'.op \in {"trigger", "heartbeat", "malformed"}
    /\ lastOp'.device_id # ""

\* C21: liveness does not depend on the measurement: every parsed message
\* that carries a device_id overwrites the liveness entry of that identity
\* with the time of receipt, whatever the system state, and a heartbeat
\* changes neither the system state nor the session nor the history
C21_LivenessIndependent ==
    /\ [][CarriesDeviceId =>
              /\ sensor_last_seen'[lastOp'.device_id] # None
              /\ sensor_last_seen'[lastOp'.device_id][1].last_seen_ts = clock
              /\ \A d \in DeviceIds \ {lastOp'.device_id} :
                     sensor_last_seen'[d] = sensor_last_seen[d]]_vars
    /\ [][lastOp'.op = "heartbeat" =>
              UNCHANGED <<state, session, history, next_id>>]_vars

\* C21 witness: a heartbeat of tee received in the state Completed, at a
\* later second than the trigger that first made tee seen, has renewed the
\* entry
C21_Witness ==
    /\ lastOp.op = "heartbeat" /\ lastOp.device_id = "tee"
    /\ state = COMPLETED
    /\ clock > 0
    /\ sensor_last_seen["tee"] = Some([last_seen_ts |-> clock,
                                       source |-> "heartbeat"])

\* C22: a trigger of an identity other than tee, hog_close and hog_far is
\* ignored for admission in every system state: the system state, the
\* session (started_at included) and the history stay as they are
C22_UnknownIdentityIgnored ==
    [][TriggerStep("other") =>
          UNCHANGED <<state, session, history, next_id>>]_vars

\* the step recorded no timestamp in the session
NothingRecorded ==
    /\ session'.tee_time_ns = session.tee_time_ns
    /\ session'.hog_close_time_ns = session.hog_close_time_ns
    /\ session'.hog_far_time_ns = session.hog_far_time_ns

\* C25: the state goes from Armed to Measuring, and started_at is stamped,
\* only on a trigger whose timestamp is recorded; a trigger handled in
\* Armed that records nothing leaves the state Armed and started_at unset
C25_MeasuringOnlyOnAdmitted ==
    [][/\ lastOp'.op = "trigger"
       /\ state = ARMED
       /\ NothingRecorded
       => /\ state' = ARMED
          /\ session'.started_at = None]_vars

\* C25 as the code has it: every trigger handled in Armed moves the state
\* to Measuring and stamps started_at, whether or not its timestamp is
\* recorded; only a tee trigger is recorded there
C25_MeasuringOnAnyTrigger ==
    [][/\ lastOp'.op = "trigger"
       /\ state = ARMED
       => /\ state' = MEASURING
          /\ session'.started_at = Some(Now)
          /\ (lastOp'.device_id # "tee" => NothingRecorded)
          /\ UNCHANGED <<history, next_id>>]_vars

\* C25 witness: a hog_close trigger handled in Armed recorded nothing and
\* the state is Measuring with started_at stamped
C25_Witness ==
    /\ lastOp.op = "trigger" /\ lastOp.device_id = "hog_close"
    /\ lastOp.from = ARMED
    /\ state = MEASURING
    /\ session = [reset EXCEPT !.started_at = Some(Now)]

\* C23: every state snapshot that is published or returned to a query holds
\* the system state, the recorded flags, the derived splits and a liveness
\* entry for each of tee, hog_close and hog_far
C23_SnapshotComplete ==
    lastOp.op = "get_state" =>
        LET snapshot == lastOp.ret[1]
        IN  /\ snapshot.state \in SystemState
            /\ snapshot.session.has_hog_close \in BOOLEAN
            /\ snapshot.session.has_hog_far \in BOOLEAN
            /\ {"tee_to_hog_close_ms", "hog_to_hog_ms", "total_ms"}
                   \subseteq DOMAIN snapshot.session
            /\ Sensors \subseteq DOMAIN snapshot.sensors

\* C24: a trigger that records a timestamp or changes the system state, and
\* an arm or disarm that returns true, calls broadcast_state
C24_AcceptedIsBroadcast ==
    /\ [][/\ lastOp'.op = "trigger"
          /\ <<state', session', history'>> # <<state, session, history>>
          => lastOp'.bcast]_vars
    /\ [][/\ lastOp'.op \in {"arm", "disarm"}
          /\ lastOp'.ret = Some(TRUE)
          => lastOp'.bcast]_vars

\* C24 witness: a hog_far trigger handled in Completed was recorded and
\* broadcast_state was called
C24_Witness ==
    /\ lastOp.op = "trigger" /\ lastOp.device_id = "hog_far"
    /\ lastOp.from = COMPLETED
    /\ session.hog_far_time_ns = Some(lastOp.timestamp_ns)
    /\ lastOp.bcast

\* the step changed the second split or the total of the record at
\* position i of the history, which stayed in its place
Backfilled(i) ==
    /\ Len(history') = Len(history)
    /\ i \in 1..Len(history)
    /\ history'[i].id = history[i].id
    /\ \/ history'[i].hog_to_hog_ms # history[i].hog_to_hog_ms
       \/ history'[i].total_ms # history[i].total_ms

\* C26: a hog_far backfill modifies only the record that the completion of
\* the current session created, which is the one with id _next_id - 1, and
\* only while its second split and total are still empty (so once)
C26_BackfillOwnRecord ==
    [][\A i \in 1..Len(history) :
           lastOp'.op = "trigger" /\ Backfilled(i) =>
               /\ history[i].id = next_id - 1
               /\ history[i].hog_to_hog_ms = None
               /\ history[i].total_ms = None]_vars

\* C27: a hog_far timestamp is recorded only by the Completed-state
\* backfill: a hog_far trigger handled in Armed or Measuring records
\* nothing, creates no record and does not complete the run; a record is
\* created, and Completed is entered, only by a hog_close trigger
C27_HogFarOnlyByBackfill ==
    /\ [][/\ TriggerStep("hog_far")
          /\ state \in {ARMED, MEASURING}
          => /\ session'.hog_far_time_ns = None
             /\ NothingRecorded
             /\ state' = MEASURING
             /\ UNCHANGED <<history, next_id>>]_vars
    /\ [][session'.hog_far_time_ns # session.hog_far_time_ns
          /\ session'.hog_far_time_ns # None
          => TriggerStep("hog_far") /\ state = COMPLETED]_vars
    /\ [][state' = COMPLETED /\ state # COMPLETED
          => TriggerStep("hog_close") /\ Len(history') = Len(history) + 1]_vars

\* C27 witness: with tee recorded, a hog_far trigger was handled in
\* Measuring and nothing was recorded
C27_Witness ==
    /\ lastOp.op = "trigger" /\ lastOp.device_id = "hog_far"
    /\ lastOp.from = MEASURING /\ state = MEASURING
    /\ session.tee_time_ns # None
    /\ lastOp.timestamp_ns > session.tee_time_ns[1]
    /\ session.hog_far_time_ns = None
    /\ history = <<>>

\* C28: every record of the history has a first split that is present and
\* strictly positive, also when triggers run on a thread of their own and
\* arm, disarm, delete_record and clear_history run between their
\* statements
C28_FirstSplitPositive ==
    \A i \in 1..Len(history) :
        /\ history[i].tee_to_hog_close_ms # None
        /\ history[i].tee_to_hog_close_ms[1].num > 0

\* C29: with every operation as one step, the system state and the session
\* agree: in Idle and Armed the three timestamps and started_at are unset,
\* the state is Completed exactly when tee and hog_close are both recorded,
\* and hog_far is recorded only in Completed
C29_StateAgreesWithSession ==
    /\ state \in {IDLE, ARMED} => session = reset
    /\ state = COMPLETED <=>
           session.tee_time_ns # None /\ session.hog_close_time_ns # None
    /\ session.hog_far_time_ns # None => state = COMPLETED

\* C29 witness: a completed run with all three timestamps recorded
C29_Witness ==
    /\ state = COMPLETED
    /\ session.tee_time_ns # None
    /\ session.hog_close_time_ns # None
    /\ session.hog_far_time_ns # None
    /\ session.started_at = Some(Now)

\* C30: the coordinator can always be recovered.  In every reachable state
\* disarm followed by arm would both return true and lead to Armed with
\* the session reset and the history and _next_id as they are; and when
\* the two calls are made, this is what they do
C30_Recoverable ==
    /\ [](LET d == disarm(Coord)
              a == arm(d.c)
          IN  /\ d.ret /\ d.c.state = IDLE
              /\ a.ret /\ a.c.state = ARMED
              /\ a.c.session = reset
              /\ a.c.history = history
              /\ a.c.next_id = next_id)
    /\ [][lastOp'.op = "disarm" =>
              /\ state' = IDLE /\ session' = reset
              /\ UNCHANGED <<history, next_id>>]_vars
    /\ [][lastOp.op = "disarm" /\ lastOp'.op = "arm" =>
              /\ lastOp'.ret = Some(TRUE)
              /\ state' = ARMED /\ session' = reset
              /\ UNCHANGED <<history, next_id>>]_vars

\* C30 witness: a run that had recorded tee and was still Measuring has
\* been disarmed, with a record of an earlier run in the history, and arm
\* is accepted now
C30_Witness ==
    /\ lastOp.op = "disarm" /\ lastOp.from = MEASURING
    /\ state = IDLE /\ session = reset
    /\ history # <<>>
    /\ arm(Coord).ret /\ arm(Coord).c.state = ARMED

\* C31: a trigger that is dropped, that is one whose timestamp is not
\* recorded, changes nothing and causes no broadcast; a trigger calls
\* broadcast_state only when it changed the system state or the session
C31_DroppedIsSilent ==
    [][lastOp'.op = "trigger" =>
          /\ NothingRecorded =>
                 /\ UNCHANGED <<state, session, history, next_id>>
                 /\ ~lastOp'.bcast
          /\ lastOp'.bcast => <<state', session'>> # <<state, session>>]_vars

\* the second half of C31 alone: a trigger calls broadcast_state only when
\* it changed the system state or the session
C31_NoBroadcastWithoutChange ==
    [][lastOp'.op = "trigger" /\ lastOp'.bcast =>
          <<state', session'>> # <<state, session>>]_vars

\* the step called a speech hook and the spawn of the TTS process failed
HookFailed == hook' \in {"failed", "raised"}

\* C32: when the speech hook fails during arm, during a completion or during
\* a backfill, no exception leaves the hook, the system state, the session,
\* the history, the id counter and the return value after the call are those
\* of the same call with a hook that succeeds, and broadcast_state is called
C32_HookFailureIsolated ==
    [][/\ hook' # "raised"
       /\ lastOp'.op = "arm" /\ HookFailed =>
              LET ok == arm_speak(Coord, speech_settings, TRUE)
              IN  /\ ok.hook = "spawned"
                  /\ Coord' = ok.c
                  /\ lastOp'.ret = ok.ret
                  /\ lastOp'.ret = Some(TRUE)
                  /\ lastOp'.bcast
       /\ lastOp'.op = "trigger" /\ HookFailed =>
              LET ok == handle_trigger_speak(Coord, lastOp'.device_id,
                                             lastOp'.timestamp_ns,
                                             speech_settings, TRUE)
              IN  /\ ok.hook = "spawned"
                  /\ Coord' = ok.c
                  /\ lastOp'.ret = None
                  /\ lastOp'.bcast]_vars

\* a backfill in Completed whose hook failed: the second split is in the
\* latest record and the broadcast was issued
C32_Witness ==
    /\ lastOp.op = "trigger"
    /\ lastOp.device_id = "hog_far"
    /\ lastOp.from = COMPLETED
    /\ hook = "failed"
    /\ history # <<>>
    /\ history[1].hog_to_hog_ms # None
    /\ lastOp.bcast

=============================================================================
